---- MODULE Spec2Model ----
(***************************************************************************)
(* MomoXRSS: an RSS poller that forwards new feed items to Discord.        *)
(*                                                                         *)
(* The repository carries two server entry points.  src/unnamed/part_001   *)
(* is the hardened server (URL validation, channel-type cache, 429 retry,  *)
(* external fetch timeout, Promise.allSettled in the cron callback);       *)
(* src/server.js is the earlier server (items[0] only, no retry, no cache, *)
(* fire-and-forget cron).  Both run against the schema of                  *)
(* src/unnamed/part_000.  The variable `build` says which of the two the   *)
(* process runs: "current" (part_001) or "legacy" (server.js).             *)
(*                                                                         *)
(* JavaScript values.  A string is a sequence of one-character tokens;     *)
(* `undefined` in a string-typed slot is the sequence Undef, which no      *)
(* string of the alphabet equals.  A number is an integer; NaN is the      *)
(* integer NaN (below all others), handled explicitly wherever the code computes with a  *)
(* date; an absent date field is 0.  In a URL the token "s" stands for a   *)
(* scheme and the token "/" for the "://" that separates it from the host. *)
(***************************************************************************)
EXTENDS Integers, Sequences, FiniteSets, TLC

\* ------------------------------------------------------------ bounds

\* cron ticks per run
MaxTicks == 2
\* checkFlux / send-latest / manual invocations per run
MaxTasks == 2
\* Management API requests per run
MaxApi == 2
\* items of a feed document whose latest item is selected
MaxItems == 3

\* ------------------------------------------------- program constants

MinInterval == 60000
DefaultAddInterval == 300000
FallbackInterval == 60000
DefaultRetries == 2
ThreadNameMax == 90
TitleMax == 100
ForumType == 15
TextType == 0
TickMs == 60000

\* ------------------------------------------------------ JS values

Undef == <<"undefined">>
\* NaN lies below every number the model computes with
NaN == 0 - 1000000000

Rep(c, n) == [i \in 1..n |-> c]

\* String.prototype.trim
RECURSIVE TrimLeft(_)
TrimLeft(s) == IF s # <<>> /\ Head(s) = " " THEN TrimLeft(Tail(s)) ELSE s

RECURSIVE TrimRight(_)
TrimRight(s) ==
    IF s # <<>> /\ s[Len(s)] = " " THEN TrimRight(SubSeq(s, 1, Len(s) - 1)) ELSE s

Trim(s) == TrimRight(TrimLeft(s))

\* String.prototype.slice(0, max)
Slice(s, max) == IF Len(s) > max THEN SubSeq(s, 1, max) ELSE s

\* truthiness of a string-typed slot: undefined and '' are falsy
TruthyStr(s) == s # Undef /\ s # <<>>

\* truthiness of a number: 0 and NaN are falsy
TruthyNum(n) == n # 0 /\ n # NaN

\* new URL(url) succeeds with a protocol and a hostname.  The URL parser
\* strips leading and trailing spaces itself; a scheme, the separator and a
\* non-empty host without inner spaces must remain.
isValidUrl(url) ==
    /\ url # Undef
    /\ LET u == Trim(url)
       IN /\ Len(u) >= 3
          /\ u[1] = "s"
          /\ u[2] = "/"
          /\ \A i \in 3..Len(u) : u[i] \notin {" ", "/"}

\* A request body is JSON: a field may hold a string or another value.  The
\* one-element array holding the string s is the token "[" followed by s.
IsArray(v) == v # <<>> /\ Head(v) = "["

\* String(v): a string is itself, the array [s] joins to s
String(v) == IF IsArray(v) THEN Tail(v) ELSE v

\* /^[0-9]{16,21}$/.test(String(id)): a channel id is the token "#" followed
\* by its digits, abbreviated to one token
isValidDiscordId(id) ==
    LET s == String(id)
    IN /\ s # Undef
       /\ Len(s) = 2
       /\ s[1] = "#"
       /\ s[2] \in {"0", "1", "2"}

Article == <<"A", "r", "t", "i", "c", "l", "e">>
NouveauSujet == <<"N", "o", "u", "v", "e", "a", "u", " ", "s", "u", "j", "e", "t">>

\* part_001: clampTitle(t, max)
clampTitle(t, max) ==
    LET s == Trim(IF TruthyStr(t) THEN t ELSE Article)
    IN IF Len(s) > max THEN Slice(s, max) ELSE s

\* part_001: sanitizeLink(link)
sanitizeLink(link) ==
    LET s == Trim(IF TruthyStr(link) THEN link ELSE <<>>)
    IN IF ~isValidUrl(s) THEN <<>> ELSE s

\* part_001: getItemLinkOrGuid(item)
getItemLinkOrGuid(item) ==
    IF TruthyStr(item.link) THEN item.link
    ELSE IF TruthyStr(item.guid) THEN item.guid
    ELSE <<>>

\* new Date(str).getTime(): a date string is written as the second it
\* denotes, an unparsable one as NaN; the result is in milliseconds
DateGetTime(str) == IF str = NaN THEN NaN ELSE 1000 * str

\* part_001: getItemDate(item); an absent field is 0 (falsy)
getItemDate(item) ==
    IF item.isoDate # 0 THEN DateGetTime(item.isoDate)
    ELSE IF item.pubDate # 0 THEN DateGetTime(item.pubDate)
    ELSE 0

\* the comparator (a, b) => b.d - a.d; a NaN result orders as +0
CompareDesc(a, b) == IF a.d = NaN \/ b.d = NaN THEN 0 ELSE b.d - a.d

\* Array.prototype.sort on a short array: insertion sort, an element moves
\* in front of its predecessors only while the comparator says "before"
RECURSIVE InsertSorted(_, _)
InsertSorted(sorted, e) ==
    IF sorted = <<>> THEN <<e>>
    ELSE IF CompareDesc(e, sorted[Len(sorted)]) < 0
         THEN Append(InsertSorted(SubSeq(sorted, 1, Len(sorted) - 1), e),
                     sorted[Len(sorted)])
         ELSE Append(sorted, e)

RECURSIVE SortFrom(_, _, _)
SortFrom(arr, k, acc) ==
    IF k > Len(arr) THEN acc ELSE SortFrom(arr, k + 1, InsertSorted(acc, arr[k]))

sortedByDate(items) ==
    SortFrom([k \in 1..Len(items) |-> [i |-> items[k], d |-> getItemDate(items[k])]],
             1, <<>>)

\* the comparator is a consistent comparison function on the array: no date
\* is NaN, or it finds every pair equal
Consistent(arr) ==
    \/ \A k \in 1..Len(arr) : arr[k].d # NaN
    \/ \A a, b \in 1..Len(arr) : CompareDesc(arr[a], arr[b]) = 0

\* the arrangements of an array
Perms(arr) ==
    LET n == Len(arr)
    IN {[k \in 1..n |-> arr[p[k]]] :
           p \in {q \in [1..n -> 1..n] : \A a, b \in 1..n : a # b => q[a] # q[b]}}

\* what the sort may leave: the stable descending order under a consistent
\* comparator, an implementation-defined order under another
sortOutcomes(items) ==
    LET arr == [k \in 1..Len(items) |-> [i |-> items[k], d |-> getItemDate(items[k])]]
    IN IF Consistent(arr) THEN {SortFrom(arr, 1, <<>>)} ELSE Perms(arr)

\* part_001 checkFlux / send-latest: latest, given the sorted array
latestOf(items, sorted) ==
    IF Len(sorted) > 0 /\ TruthyNum(sorted[1].d) THEN sorted[1].i ELSE items[1]

\* part_001 checkFlux / send-latest: the item taken as the latest
selectLatest(items) == latestOf(items, sortedByDate(items))

\* parseInt(v, 10): leading blanks and a sign are skipped, the digits up to the
\* first other character are read, NaN when there is none
Digits == <<"0", "1", "2", "3", "4", "5", "6", "7", "8", "9">>
IsDigit(c) == \E d \in 1..10 : Digits[d] = c
DigitVal(c) == (CHOOSE d \in 1..10 : Digits[d] = c) - 1

RECURSIVE ReadDigits(_, _)
ReadDigits(s, acc) ==
    IF s # <<>> /\ IsDigit(Head(s)) THEN ReadDigits(Tail(s), 10 * acc + DigitVal(Head(s)))
    ELSE acc

parseInt(v) ==
    LET s == TrimLeft(v)
        neg == s # <<>> /\ Head(s) = "-"
        body == IF neg THEN Tail(s) ELSE s
    IN IF v = Undef \/ body = <<>> \/ ~IsDigit(Head(body)) THEN NaN
       ELSE IF neg THEN 0 - ReadDigits(body, 0) ELSE ReadDigits(body, 0)

\* ------------------------------------------------- the environment

\* feed URLs a request or a record may carry
U1 == <<"s", "/", "a">>
U2 == <<"s", "/", "b">>
BadUrl == <<"a", "b">>

\* channel ids and the type Discord reports for each
ChText == <<"#", "0">>
ChForum == <<"#", "1">>
ChVoice == <<"#", "2">>
\* the forum channel's id sent as a one-element array
ChForumArray == <<"[">> \o ChForum
BadId == <<"x">>
Channels == {ChText, ChForum, ChVoice}
\* GET /channels/{id} -> json.type; a voice channel reports type 2
channelType(c) ==
    IF String(c) = ChText THEN TextType
    ELSE IF String(c) = ChForum THEN ForumType
    ELSE 2

\* item links
LinkA == <<"s", "/", "p">>
LinkB == <<"s", "/", "q">>
LinkC == <<"s", "/", "r">>
NotAUrl == <<"q", "r">>

\* two date strings, T1 before T2
T1 == 1 + 0
T2 == 1 + 1

Item(title, link, guid, isoDate, pubDate) ==
    [title |-> title, link |-> link, guid |-> guid, isoDate |-> isoDate, pubDate |-> pubDate]

LongTitleLen == 101
LongTitle == <<" ">> \o Rep("t", LongTitleLen)

\* the feed documents a fetch may return
Docs ==
    << <<>>,
       << Item(<<"o", "l", "d">>, LinkA, Undef, T1, T1),
          Item(LongTitle, LinkB, Undef, T2, T2) >>,
       << Item(<<"c">>, LinkC, Undef, 0, T1) >>,
       << Item(Undef, <<" ">> \o LinkA \o <<" ">>, Undef, 0, 0) >>,
       << Item(<<"n">>, NotAUrl, LinkC, 0, 0) >>,
       << Item(<<>>, Undef, <<>>, 0, NaN) >> >>

DocIds == 1..Len(Docs)

\* ------------------------------------------------------------ state

VARIABLES
    build,              \* which server the process runs: "current" | "legacy"
    token,              \* DISCORD_BOT_TOKEN is configured
    store,              \* the Flux collection: a sequence of records, index = _id
    channelTypeCache,   \* part_001: the cached channel infos
    tasks,              \* every checkFlux / send-latest / manual invocation so far
    ticks,              \* every cron callback invocation so far
    api,                \* the last Management API request and its answer
    lastDelivered,      \* history: per _id, the document last delivered and saved
    call,               \* one discordFetch call followed attempt by attempt
    pick                \* one selection of the latest item of an item list

vars == <<build, token, store, channelTypeCache, tasks, ticks, api, lastDelivered, call, pick>>

\* a document of the collection; `present` is FALSE once it is deleted
Flux(rssUrl, discordTarget, interval) ==
    [present |-> TRUE, rssUrl |-> Trim(rssUrl), discordTarget |-> discordTarget,
     interval |-> interval, lastItem |-> Undef, active |-> TRUE]

\* what a query hands back for a stored record: the schema's paths.  lastPubDate
\* and _lastCheck are no paths of fluxSchema, so a loaded document has neither.
Hydrate(rec) ==
    [rssUrl |-> rec.rssUrl, discordTarget |-> rec.discordTarget,
     interval |-> rec.interval, lastItem |-> rec.lastItem, active |-> rec.active,
     lastPubDate |-> 0, _lastCheck |-> 0]

\* a save() that writes every path of the document as it was loaded
PersistWhole(rec, doc) == [rec EXCEPT !.lastItem = doc.lastItem, !.active = doc.active]

\* flux.save(): the modified schema paths of the document are written
Persist(rec, doc) == [rec EXCEPT !.lastItem = doc.lastItem]

Ids == 1..Len(store)
Present(id) == id \in Ids /\ store[id].present

\* fluxSchema.statics.findActive
findActive == {id \in Ids : store[id].present /\ store[id].active}

\* findOne(filter): the first stored record the filter matches, 0 when none
FirstOf(S) == IF S = {} THEN 0 ELSE CHOOSE id \in S : \A o \in S : id <= o
findOneByUrl(rssUrl) == FirstOf({id \in Ids : store[id].present /\ store[id].rssUrl = rssUrl})
findOnePair(rssUrl, target) ==
    FirstOf({id \in Ids : /\ store[id].present
                          /\ store[id].rssUrl = rssUrl
                          /\ store[id].discordTarget = target})

\* the unique index { rssUrl: 1, discordTarget: 1 }
Duplicate(id, rssUrl, target) ==
    \E o \in Ids : /\ o # id
                   /\ store[o].present
                   /\ store[o].rssUrl = rssUrl
                   /\ store[o].discordTarget = target

\* the collection as the process may find it when it starts
Seeds ==
    { <<>>,
      << Flux(U1, ChText, 60000) >>,
      << Flux(U1, ChForum, 60000), Flux(U1, ChText, 120000) >>,
      << Flux(BadUrl, ChText, 3600000), Flux(U2, ChVoice, 3600000) >>,
      << Flux(U2, ChForum, 120000) >> }

MaxSeed == Len(<< U1, U2 >>)
\* the interval of a request that sent none
NotSent == 0 - 2000000000
NoRequest == [n |-> 0, op |-> "", interval |-> NotSent, status |-> 0]
NoError == [status |-> 0, text |-> <<>>]
NoCall == [resps |-> <<>>, n |-> 0, retries |-> 0, at |-> "idle", error |-> NoError]
NoPick == [items |-> <<>>, sorted |-> <<>>, latest |-> Item(Undef, Undef, Undef, 0, 0),
           at |-> "idle"]

Init ==
    /\ build \in {"current", "legacy"}
    /\ token \in BOOLEAN
    /\ store \in Seeds
    /\ channelTypeCache = {}
    /\ tasks = <<>>
    /\ ticks = <<>>
    /\ api = NoRequest
    /\ lastDelivered = [id \in 1..(MaxSeed + MaxApi) |-> 0]
    /\ call = NoCall
    /\ pick = NoPick

\* ------------------------------------------------------------ tasks

\* no item selected yet, no channel resolved yet
NoItem == Item(Undef, Undef, Undef, 0, 0)
NoType == 0 - 1

\* one invocation of checkFlux, of the send-latest handler or of the manual
\* handler.  pc is the await it is suspended at; latest, link, date, type and
\* name are its locals (name is the thread payload's).  History: was is
\* lastItem of the document as loaded, prev is lastDelivered of the
\* subscription at that moment, feed the document fetched, calls the Discord
\* calls made ("GET" the channel lookup, "thread", "message"), seen the
\* subscription as a query reads it back after the save, outcome how the
\* invocation ended ("returned" or "thrown").
NewTask(kind, tick, id, doc, chan, prev) ==
    [kind |-> kind, tick |-> tick, id |-> id, doc |-> doc, chan |-> chan,
     was |-> doc.lastItem, prev |-> prev,
     pc |-> "fetch", feed |-> 0, latest |-> NoItem, link |-> <<>>, date |-> 0,
     type |-> NoType, name |-> <<>>, calls |-> <<>>,
     delivered |-> FALSE, saved |-> FALSE, err |-> "", status |-> 0,
     outcome |-> "pending",
     seen |-> [lastItem |-> Undef, lastPubDate |-> 0]]

\* an ending whose catch throws the error on
FinishRethrown(t, err, status) ==
    [t EXCEPT !.pc = "done", !.err = err, !.status = status,
              !.outcome = IF err = "" THEN "returned" ELSE "thrown"]

\* the invocation ends: the catch of checkFlux logs the error and returns, a
\* handler answers with its status
Finish(t, err, status) ==
    [t EXCEPT !.pc = "done", !.err = err, !.status = status, !.outcome = "returned"]

\* the status a handler answers with when sendToDiscord or save throws
CatchStatus(t) == IF t.kind = "check" THEN 0 ELSE 500

\* ------------------------------------- part_001: the Discord gateway

\* the HTTP statuses Discord answers with: success, rate limit, another failure
Statuses == {200, 429, 500}

\* the responses the server gives to the successive attempts of one call
Responses == [1..(DefaultRetries + 2) -> Statuses]

\* resp.ok
RespOk(status) == status >= 200 /\ status <= 299

\* a discordFetch that retries every response that is no success
discordFetchRetryFailures(status, retries) ==
    IF ~RespOk(status) /\ retries > 0 THEN "retry"
    ELSE IF ~RespOk(status) THEN "throw"
    ELSE "return"

\* a discordFetch that retries while retries >= 0
discordFetchOneMore(status, retries) ==
    IF status = 429 /\ retries >= 0 THEN "retry"
    ELSE IF ~RespOk(status) THEN "throw"
    ELSE "return"

\* discordFetch(url, options, retries) on the response to its fetch: on a 429
\* with retries left it sleeps and calls itself with retries - 1, on another
\* non-success it throws, else it returns the response
discordFetch(status, retries) ==
    IF status = 429 /\ retries > 0 THEN "retry"
    ELSE IF ~RespOk(status) THEN "throw"
    ELSE "return"

\* the body of the response to attempt n of a call
Body(n) == <<"b", Digits[n]>>

\* the Error discordFetch throws: its message ends in resp.status, ": " and
\* the text read from the response, '' when the read fails
discordError(status, text) == [status |-> status, text |-> text]

\* a whole discordFetch call, the server answering attempt n with resps[n]
RECURSIVE discordFetchCall(_, _, _)
discordFetchCall(resps, n, retries) ==
    LET step == discordFetch(resps[n], retries)
    IN IF step = "retry" THEN discordFetchCall(resps, n + 1, retries - 1)
       ELSE [ok |-> step = "return", status |-> resps[n], tries |-> n]

\* channelTypeCache.get(channelId): a Map finds a string key by its value, an
\* array key by the identity of the object, and every request body holds an
\* array of its own
Cached(c) == {e \in channelTypeCache : e.id = c /\ ~IsArray(c)}

\* a createForumThread that names the thread by the title as it receives it
createForumThreadUnclamped(t, title) ==
    [t EXCEPT !.pc = "post", !.calls = Append(@, "thread"), !.name = title]

\* createForumThread(channelId, title, content): payload.name, then the POST
createForumThread(t, title) ==
    [t EXCEPT !.pc = "post", !.calls = Append(@, "thread"),
              !.name = clampTitle(title, ThreadNameMax)]

\* postTextMessage(channelId, content)
postTextMessage(t) == [t EXCEPT !.pc = "post", !.calls = Append(@, "message")]

\* sendToDiscord once the channel is known: dispatch on channel.type
dispatchOnType(t, type) ==
    LET safeTitle == clampTitle(t.latest.title, TitleMax)
        c == [t EXCEPT !.type = type]
    IN IF type = ForumType THEN createForumThread(c, safeTitle)
       ELSE IF type = TextType THEN postTextMessage(c)
       ELSE Finish(c, "unsupported", CatchStatus(c))

\* getChannel(channelId) up to its suspension: the cached info, or the lookup
getChannel(t) ==
    IF Cached(t.chan) # {}
    THEN dispatchOnType(t, (CHOOSE e \in Cached(t.chan) : TRUE).type)
    ELSE [t EXCEPT !.pc = "lookup", !.calls = Append(@, "GET")]

\* sendToDiscord(channelId, title, link) up to its first suspension
sendToDiscord(t) ==
    IF ~token THEN Finish(t, "token", CatchStatus(t)) ELSE getChannel(t)

\* the delivery call returned: checkFlux and send-latest mark the document
\* and go on to flux.save(); the manual handler answers
afterDelivery(t) ==
    IF t.kind = "manual" THEN [Finish(t, "", 200) EXCEPT !.delivered = TRUE]
    ELSE [t EXCEPT !.pc = "save", !.delivered = TRUE,
                   !.doc.lastItem = t.link,
                   !.doc.lastPubDate = IF TruthyNum(t.date) THEN t.date ELSE @]

\* the discordFetch call task i is suspended in settles, the server answering
\* its attempts with resps: getChannel stores the channel and sendToDiscord
\* dispatches, or the delivery returns, or the call's error is thrown
Respond(i, resps) ==
    /\ build = "current"
    /\ i \in DOMAIN tasks
    /\ tasks[i].pc \in {"lookup", "post"}
    /\ LET t == tasks[i]
           r == discordFetchCall(resps, 1, DefaultRetries)
       IN \/ /\ ~r.ok
             /\ tasks' = [tasks EXCEPT ![i] = Finish(t, "http", CatchStatus(t))]
             /\ UNCHANGED channelTypeCache
          \/ /\ r.ok
             /\ t.pc = "lookup"
             /\ channelTypeCache' =
                    channelTypeCache \cup {[id |-> t.chan, type |-> channelType(t.chan)]}
             /\ tasks' = [tasks EXCEPT ![i] = dispatchOnType(t, channelType(t.chan))]
          \/ /\ r.ok
             /\ t.pc = "post"
             /\ tasks' = [tasks EXCEPT ![i] = afterDelivery(t)]
             /\ UNCHANGED channelTypeCache
    /\ UNCHANGED <<build, token, store, ticks, api, lastDelivered, call, pick>>

\* one discordFetch call followed attempt by attempt: the response to the
\* attempt in flight arrives
FetchAttempt ==
    /\ call.at = "waiting"
    /\ LET step == discordFetch(call.resps[call.n], call.retries)
       IN \/ /\ step = "retry"
             /\ call' = [call EXCEPT !.n = @ + 1, !.retries = @ - 1]
          \/ /\ step = "throw"
             /\ \E read \in BOOLEAN :
                   call' = [call EXCEPT !.at = "thrown",
                               !.error = discordError(call.resps[call.n],
                                             IF read THEN Body(call.n) ELSE <<>>)]
          \/ /\ step = "return"
             /\ call' = [call EXCEPT !.at = "returned"]
    /\ UNCHANGED <<build, token, store, channelTypeCache, tasks, ticks, api, lastDelivered, pick>>

\* flux.save() of checkFlux or send-latest settles.  ok = FALSE is a write the
\* database refuses.  A record deleted meanwhile is left deleted, and save()
\* resolves or rejects as the driver reports the unmatched update.
saveFlux(i, ok) ==
    /\ i \in DOMAIN tasks
    /\ tasks[i].pc = "save"
    /\ LET t == tasks[i]
           okStatus == IF t.kind = "check" THEN 0 ELSE 200
       IN \/ /\ ok
             /\ Present(t.id)
             /\ store' = [store EXCEPT ![t.id] = Persist(@, t.doc)]
             /\ lastDelivered' = [lastDelivered EXCEPT ![t.id] = t.feed]
             /\ tasks' = [tasks EXCEPT ![i] =
                    [Finish(t, "", okStatus) EXCEPT
                        !.saved = TRUE,
                        !.seen = [lastItem |-> Hydrate(store'[t.id]).lastItem,
                                  lastPubDate |-> Hydrate(store'[t.id]).lastPubDate]]]
          \/ /\ ok
             /\ ~Present(t.id)
             /\ \/ tasks' = [tasks EXCEPT ![i] = Finish(t, "", okStatus)]
                \/ tasks' = [tasks EXCEPT ![i] = Finish(t, "save", CatchStatus(t))]
             /\ UNCHANGED <<store, lastDelivered>>
          \/ /\ ~ok
             /\ tasks' = [tasks EXCEPT ![i] = Finish(t, "save", CatchStatus(t))]
             /\ UNCHANGED <<store, lastDelivered>>
    /\ UNCHANGED <<build, token, channelTypeCache, ticks, api, call, pick>>

Save(i, ok) == build = "current" /\ saveFlux(i, ok)

\* ------------------------------------------- part_001: checkFlux, cron

\* what parseRssWithTimeout settles with: a document of Docs, the parser's
\* rejection, or the rejection of the timer it is raced against
FetchError == 0 - 1
FetchTimeout == 0 - 2
\* a retrieval without the timer of the race: the parser's own settlements
FetchResultsNoTimer == DocIds \cup {FetchError}
FetchResults == DocIds \cup {FetchError, FetchTimeout}

\* a novelty gate without the link test: the date test alone
noNoveltyDateOnly(flux, latestLink, latestDate) ==
    /\ TruthyNum(flux.lastPubDate)
    /\ TruthyNum(latestDate)
    /\ flux.lastPubDate >= latestDate

\* the novelty gate of checkFlux
noNovelty(flux, latestLink, latestDate) ==
    \/ flux.lastItem = latestLink
    \/ /\ TruthyNum(flux.lastPubDate)
       /\ TruthyNum(latestDate)
       /\ flux.lastPubDate >= latestDate

\* a checkFlux that marks the document before it delivers
checkFluxMarkFirst(t, r) ==
    IF r = FetchError THEN Finish(t, "fetch", 0)
    ELSE IF r = FetchTimeout THEN Finish(t, "timeout", 0)
    ELSE LET items == Docs[r]
             f == [t EXCEPT !.feed = r]
         IN IF Len(items) = 0 THEN Finish(f, "", 0)
            ELSE LET latest == selectLatest(items)
                     latestLink == sanitizeLink(getItemLinkOrGuid(latest))
                     latestDate == getItemDate(latest)
                     c == [f EXCEPT !.latest = latest, !.link = latestLink,
                                    !.date = latestDate]
                 IN IF latestLink = <<>> THEN Finish(c, "", 0)
                    ELSE IF noNovelty(t.doc, latestLink, latestDate) THEN Finish(c, "", 0)
                    ELSE sendToDiscord([c EXCEPT !.doc.lastItem = latestLink])

\* checkFlux from the settled fetch to its next suspension
checkFlux(t, r) ==
    IF r = FetchError THEN Finish(t, "fetch", 0)
    ELSE IF r = FetchTimeout THEN Finish(t, "timeout", 0)
    ELSE LET items == Docs[r]
             f == [t EXCEPT !.feed = r]
         IN IF Len(items) = 0 THEN Finish(f, "", 0)
            ELSE LET latest == selectLatest(items)
                     latestLink == sanitizeLink(getItemLinkOrGuid(latest))
                     latestDate == getItemDate(latest)
                     c == [f EXCEPT !.latest = latest, !.link = latestLink,
                                    !.date = latestDate]
                 IN IF latestLink = <<>> THEN Finish(c, "", 0)
                    ELSE IF noNovelty(t.doc, latestLink, latestDate) THEN Finish(c, "", 0)
                    ELSE sendToDiscord(c)

\* the feed fetch of a scheduled check settles
CheckFetched(i, r) ==
    /\ build = "current"
    /\ i \in DOMAIN tasks
    /\ tasks[i].kind = "check"
    /\ tasks[i].pc = "fetch"
    /\ tasks' = [tasks EXCEPT ![i] = checkFlux(tasks[i], r)]
    /\ UNCHANGED <<build, token, store, channelTypeCache, ticks, api, lastDelivered, call, pick>>

\* the timer of parseRssWithTimeout fires while the fetch of check i is
\* pending: the race rejects with the Timeout error
FetchTimer(i) == FetchTimeout \in FetchResults /\ CheckFetched(i, FetchTimeout)

\* Date.now() of the k-th tick
Now(k) == k * TickMs

\* the cron callback's due test
due(flux, now) ==
    LET interval == IF flux.interval # NaN THEN flux.interval ELSE FallbackInterval
    IN ~TruthyNum(flux._lastCheck) \/ now - flux._lastCheck >= interval

\* checkFlux(flux) up to its first suspension: the URL guard, then the fetch
startCheck(k, id, doc) ==
    LET t == NewTask("check", k, id, doc, doc.discordTarget, lastDelivered[id])
    IN IF ~isValidUrl(doc.rssUrl) THEN Finish(t, "", 0) ELSE t

\* the ids of a set in ascending order
RECURSIVE Ascending(_)
Ascending(S) ==
    IF S = {} THEN <<>>
    ELSE LET m == CHOOSE x \in S : \A y \in S : x <= y
         IN <<m>> \o Ascending(S \ {m})

\* the cron callback: load the active subscriptions, start the check of each
\* due one, then await Promise.allSettled.  loaded = FALSE: findActive rejects
\* and the callback's catch logs it.
Tick(loaded) ==
    /\ build = "current"
    /\ Len(ticks) < MaxTicks
    /\ LET k == Len(ticks) + 1
           fluxes == Ascending(findActive)
           toRun == SelectSeq(fluxes, LAMBDA id : due(Hydrate(store[id]), Now(k)))
           started == [n \in 1..Len(toRun) |->
                          startCheck(k, toRun[n],
                              [Hydrate(store[toRun[n]]) EXCEPT !._lastCheck = Now(k)])]
       IN \/ /\ loaded
             /\ Len(tasks) + Len(toRun) <= MaxTasks
             /\ tasks' = tasks \o started
             /\ ticks' = Append(ticks,
                    [status |-> IF Len(toRun) = 0 THEN "completed" ELSE "awaiting",
                     caught |-> FALSE, due |-> Len(toRun),
                     first |-> Len(tasks) + 1, last |-> Len(tasks) + Len(toRun)])
          \/ /\ ~loaded
             /\ ticks' = Append(ticks, [status |-> "completed", caught |-> TRUE,
                                        due |-> 0, first |-> 1, last |-> 0])
             /\ UNCHANGED tasks
    /\ UNCHANGED <<build, token, store, channelTypeCache, api, lastDelivered, call, pick>>

\* a callback that fails when one of its checks has ended with an error
TickSettledAll(k) ==
    /\ build = "current"
    /\ k \in DOMAIN ticks
    /\ ticks[k].status = "awaiting"
    /\ \A i \in ticks[k].first..ticks[k].last : tasks[i].pc = "done"
    /\ ticks' = [ticks EXCEPT ![k].status =
                    IF \E i \in ticks[k].first..ticks[k].last : tasks[i].err # ""
                    THEN "failed" ELSE "completed"]
    /\ UNCHANGED <<build, token, store, channelTypeCache, tasks, api, lastDelivered, call, pick>>

\* Promise.allSettled(toRun) resolves and the callback returns
TickSettled(k) ==
    /\ build = "current"
    /\ k \in DOMAIN ticks
    /\ ticks[k].status = "awaiting"
    /\ \A i \in ticks[k].first..ticks[k].last : tasks[i].pc = "done"
    /\ ticks' = [ticks EXCEPT ![k].status = "completed"]
    /\ UNCHANGED <<build, token, store, channelTypeCache, tasks, api, lastDelivered, call, pick>>

\* ------------------------------------------ server.js: checkFlux, cron

\* createForumThread: (title || 'Nouveau sujet').slice(0, 90), then the POST
legacyCreateForumThread(t) ==
    [t EXCEPT !.pc = "post", !.calls = Append(@, "thread"),
              !.name = Slice(IF TruthyStr(t.latest.title) THEN t.latest.title
                             ELSE NouveauSujet,
                             ThreadNameMax)]

\* sendToDiscord once getChannel has answered: dispatch on channel.type
legacyDispatch(t, type) ==
    LET c == [t EXCEPT !.type = type]
    IN IF type = ForumType THEN legacyCreateForumThread(c)
       ELSE IF type = TextType THEN postTextMessage(c)
       ELSE Finish(c, "unsupported", 0)

\* sendToDiscord up to its first suspension: the token guard, then the lookup
legacySendToDiscord(t) ==
    IF ~token THEN Finish(t, "token", 0)
    ELSE [t EXCEPT !.pc = "lookup", !.calls = Append(@, "GET")]

\* checkFlux from the settled parser.parseURL to its next suspension
legacyCheckFlux(t, r) ==
    IF r = FetchError THEN Finish(t, "fetch", 0)
    ELSE LET items == Docs[r]
             f == [t EXCEPT !.feed = r]
         IN IF Len(items) = 0 THEN Finish(f, "", 0)
            ELSE LET latest == items[1]
                     latestLink == getItemLinkOrGuid(latest)
                     c == [f EXCEPT !.latest = latest, !.link = latestLink]
                 IN IF latestLink = <<>> THEN Finish(c, "", 0)
                    ELSE IF t.doc.lastItem = latestLink THEN Finish(c, "", 0)
                    ELSE legacySendToDiscord(c)

\* parser.parseURL settles; it rejects a URL it cannot request
LegacyFetched(i, r) ==
    /\ build = "legacy"
    /\ i \in DOMAIN tasks
    /\ tasks[i].pc = "fetch"
    /\ isValidUrl(tasks[i].doc.rssUrl) \/ r = FetchError
    /\ tasks' = [tasks EXCEPT ![i] = legacyCheckFlux(tasks[i], r)]
    /\ UNCHANGED <<build, token, store, channelTypeCache, ticks, api, lastDelivered, call, pick>>

\* the single fetch of getChannel, createForumThread or postTextMessage settles
LegacyRespond(i, status) ==
    /\ build = "legacy"
    /\ i \in DOMAIN tasks
    /\ tasks[i].pc \in {"lookup", "post"}
    /\ LET t == tasks[i]
       IN \/ /\ ~RespOk(status)
             /\ tasks' = [tasks EXCEPT ![i] = Finish(t, "http", 0)]
          \/ /\ RespOk(status)
             /\ t.pc = "lookup"
             /\ tasks' = [tasks EXCEPT ![i] = legacyDispatch(t, channelType(t.chan))]
          \/ /\ RespOk(status)
             /\ t.pc = "post"
             /\ tasks' = [tasks EXCEPT ![i] =
                    [t EXCEPT !.pc = "save", !.delivered = TRUE, !.doc.lastItem = t.link]]
    /\ UNCHANGED <<build, token, store, channelTypeCache, ticks, api, lastDelivered, call, pick>>

LegacySave(i, ok) == build = "legacy" /\ saveFlux(i, ok)

\* the cron callback's due test
legacyDue(flux, now) ==
    ~TruthyNum(flux._lastCheck) \/ now - flux._lastCheck >= flux.interval

\* the cron callback: load the active subscriptions and call checkFlux on each
\* due one without awaiting it
LegacyTick(loaded) ==
    /\ build = "legacy"
    /\ Len(ticks) < MaxTicks
    /\ LET k == Len(ticks) + 1
           fluxes == Ascending(findActive)
           toRun == SelectSeq(fluxes, LAMBDA id : legacyDue(Hydrate(store[id]), Now(k)))
           started == [n \in 1..Len(toRun) |->
                          LET doc == [Hydrate(store[toRun[n]]) EXCEPT !._lastCheck = Now(k)]
                          IN NewTask("check", k, toRun[n], doc, doc.discordTarget,
                                     lastDelivered[toRun[n]])]
       IN \/ /\ loaded
             /\ Len(tasks) + Len(toRun) <= MaxTasks
             /\ tasks' = tasks \o started
             /\ ticks' = Append(ticks,
                    [status |-> "completed", caught |-> FALSE, due |-> Len(toRun),
                     first |-> Len(tasks) + 1, last |-> Len(tasks) + Len(toRun)])
          \/ /\ ~loaded
             /\ ticks' = Append(ticks, [status |-> "completed", caught |-> TRUE,
                                        due |-> 0, first |-> 1, last |-> 0])
             /\ UNCHANGED tasks
    /\ UNCHANGED <<build, token, store, channelTypeCache, api, lastDelivered, call, pick>>

\* -------------------------------------- part_001: the Management API

\* an interval test that refuses what is no number, and nothing else
invalidIntervalNaNOnly(iv) == iv = NaN

\* part_001: Number.isNaN(iv) || iv < 60000, the interval test of /add and /update
invalidInterval(iv) == iv = NaN \/ iv < MinInterval

\* the validators of fluxSchema, which save() runs and findOneAndUpdate does not
schemaValid(flux) ==
    /\ TruthyStr(flux.rssUrl)
    /\ isValidDiscordId(flux.discordTarget)
    /\ flux.interval # NaN
    /\ flux.interval >= MinInterval

\* the answer to request number api.n + 1; interval is the number its interval
\* field reads as (NotSent without one)
Answer(op, interval, status) ==
    [n |-> api.n + 1, op |-> op, interval |-> interval, status |-> status]

\* POST /add
Add(rssUrl, discordTarget, interval) ==
    /\ build = "current"
    /\ api.n < MaxApi
    /\ LET iv == IF interval # Undef THEN parseInt(interval) ELSE DefaultAddInterval
           sent == IF interval # Undef THEN iv ELSE NotSent
           flux == Flux(rssUrl, Trim(String(discordTarget)), iv)
           status ==
               IF ~TruthyStr(rssUrl) \/ ~isValidUrl(rssUrl) THEN 400
               ELSE IF ~TruthyStr(discordTarget) \/ ~isValidDiscordId(discordTarget) THEN 400
               ELSE IF invalidInterval(iv) THEN 400
               ELSE IF ~schemaValid(flux) THEN 400
               ELSE IF Duplicate(0, flux.rssUrl, flux.discordTarget) THEN 400
               ELSE 201
       IN /\ api' = Answer("add", sent, status)
          /\ store' = IF status = 201 THEN Append(store, flux) ELSE store
    /\ UNCHANGED <<build, token, channelTypeCache, tasks, ticks, lastDelivered, call, pick>>

\* POST /update
Update(rssUrl, interval, discordTarget, newRssUrl) ==
    /\ build = "current"
    /\ api.n < MaxApi
    /\ LET iv == parseInt(interval)
           sent == IF interval # Undef THEN iv ELSE NotSent
           t == Trim(String(discordTarget))
           id == findOneByUrl(rssUrl)
           badUrl == ~TruthyStr(rssUrl) \/ ~isValidUrl(rssUrl)
           badInterval == interval # Undef /\ invalidInterval(iv)
           badTarget == discordTarget # Undef /\ ~isValidDiscordId(t)
           badNewUrl == newRssUrl # Undef /\ ~isValidUrl(newRssUrl)
           purged == ~badUrl /\ ~badInterval /\ discordTarget # Undef /\ ~badTarget
           updated == [store[id] EXCEPT
                          !.interval = IF interval # Undef THEN iv ELSE @,
                          !.discordTarget = IF discordTarget # Undef THEN t ELSE @,
                          !.rssUrl = IF newRssUrl # Undef THEN newRssUrl ELSE @]
           status ==
               IF badUrl \/ badInterval \/ badTarget \/ badNewUrl THEN 400
               ELSE IF id = 0 THEN 404
               ELSE IF Duplicate(id, updated.rssUrl, updated.discordTarget) THEN 400
               ELSE 200
       IN /\ api' = Answer("update", sent, status)
          /\ channelTypeCache' =
                 IF purged THEN {e \in channelTypeCache : e.id # t} ELSE channelTypeCache
          /\ store' = IF status = 200 THEN [store EXCEPT ![id] = updated] ELSE store
    /\ UNCHANGED <<build, token, tasks, ticks, lastDelivered, call, pick>>

\* POST /toggle, through fluxSchema.statics.toggleActive
Toggle(rssUrl) ==
    /\ build = "current"
    /\ api.n < MaxApi
    /\ LET id == findOneByUrl(rssUrl)
           status == IF ~TruthyStr(rssUrl) \/ ~isValidUrl(rssUrl) THEN 400
                     ELSE IF id = 0 THEN 404 ELSE 200
       IN /\ api' = Answer("toggle", NotSent, status)
          /\ store' = IF status = 200 THEN [store EXCEPT ![id].active = ~@] ELSE store
    /\ UNCHANGED <<build, token, channelTypeCache, tasks, ticks, lastDelivered, call, pick>>

\* POST /delete
Delete(rssUrl) ==
    /\ build = "current"
    /\ api.n < MaxApi
    /\ LET id == findOneByUrl(rssUrl)
           status == IF ~TruthyStr(rssUrl) \/ ~isValidUrl(rssUrl) THEN 400
                     ELSE IF id = 0 THEN 404 ELSE 200
       IN /\ api' = Answer("delete", NotSent, status)
          /\ store' = IF status = 200 THEN [store EXCEPT ![id].present = FALSE] ELSE store
    /\ UNCHANGED <<build, token, channelTypeCache, tasks, ticks, lastDelivered, call, pick>>

\* fluxSchema.statics.updateInterval(rssUrl, interval), interval a number; the
\* thrown Error is recorded as status 400 (as is the cast error of a NaN,
\* which no comparison stops), a null result as 404
UpdateInterval(rssUrl, interval) ==
    /\ build = "current"
    /\ api.n < MaxApi
    /\ LET id == findOneByUrl(rssUrl)
           status == IF interval # NaN /\ interval < MinInterval THEN 400
                     ELSE IF interval = NaN THEN 400
                     ELSE IF id = 0 THEN 404 ELSE 200
       IN /\ api' = Answer("updateInterval", interval, status)
          /\ store' = IF status = 200 THEN [store EXCEPT ![id].interval = interval] ELSE store
    /\ UNCHANGED <<build, token, channelTypeCache, tasks, ticks, lastDelivered, call, pick>>

\* POST /send-latest up to its first suspension: the validation, findOne, then
\* the feed fetch
SendLatest(rssUrl, discordTarget) ==
    /\ build = "current"
    /\ api.n < MaxApi
    /\ LET id == findOnePair(rssUrl, Trim(String(discordTarget)))
           status ==
               IF ~TruthyStr(rssUrl) \/ ~isValidUrl(rssUrl) THEN 400
               ELSE IF ~TruthyStr(discordTarget) \/ ~isValidDiscordId(discordTarget) THEN 400
               ELSE IF id = 0 THEN 404
               ELSE 0
       IN /\ api' = Answer("send-latest", NotSent, status)
          /\ \/ /\ status # 0
                /\ UNCHANGED tasks
             \/ /\ status = 0
                /\ Len(tasks) < MaxTasks
                /\ tasks' = Append(tasks,
                       NewTask("send-latest", 0, id, Hydrate(store[id]), discordTarget,
                               lastDelivered[id]))
    /\ UNCHANGED <<build, token, store, channelTypeCache, ticks, lastDelivered, call, pick>>

\* a send-latest that records the item without delivering it
sendLatestRecordFirst(t, r) ==
    IF r = FetchError THEN Finish(t, "fetch", 500)
    ELSE IF r = FetchTimeout THEN Finish(t, "timeout", 500)
    ELSE LET items == Docs[r]
             f == [t EXCEPT !.feed = r]
         IN IF Len(items) = 0 THEN Finish(f, "", 404)
            ELSE LET latest == selectLatest(items)
                     latestLink == sanitizeLink(getItemLinkOrGuid(latest))
                     c == [f EXCEPT !.latest = latest, !.link = latestLink,
                                    !.date = getItemDate(latest)]
                 IN IF latestLink = <<>> THEN Finish(c, "", 400)
                    ELSE [c EXCEPT !.pc = "save", !.doc.lastItem = latestLink]

\* POST /send-latest from the settled fetch to its next suspension
sendLatest(t, r) ==
    IF r = FetchError THEN Finish(t, "fetch", 500)
    ELSE IF r = FetchTimeout THEN Finish(t, "timeout", 500)
    ELSE LET items == Docs[r]
             f == [t EXCEPT !.feed = r]
         IN IF Len(items) = 0 THEN Finish(f, "", 404)
            ELSE LET latest == selectLatest(items)
                     latestLink == sanitizeLink(getItemLinkOrGuid(latest))
                     latestDate == getItemDate(latest)
                     c == [f EXCEPT !.latest = latest, !.link = latestLink,
                                    !.date = latestDate]
                 IN IF latestLink = <<>> THEN Finish(c, "", 400) ELSE sendToDiscord(c)

SendLatestFetched(i, r) ==
    /\ build = "current"
    /\ i \in DOMAIN tasks
    /\ tasks[i].kind = "send-latest"
    /\ tasks[i].pc = "fetch"
    /\ tasks' = [tasks EXCEPT ![i] = sendLatest(tasks[i], r)]
    /\ UNCHANGED <<build, token, store, channelTypeCache, ticks, api, lastDelivered, call, pick>>

\* a manual post that marks its link as the last item of the subscriptions
\* of its target
ManualMarksTarget(title, link, discordTarget) ==
    /\ build = "current"
    /\ api.n < MaxApi
    /\ LET valid == TruthyStr(discordTarget) /\ isValidDiscordId(discordTarget)
           safeLink == sanitizeLink(link)
           t == [NewTask("manual", 0, 0, Hydrate(Flux(<<>>, discordTarget, 0)),
                         discordTarget, 0)
                    EXCEPT !.latest = Item(IF TruthyStr(title) THEN title ELSE Article,
                                           link, Undef, 0, 0),
                           !.link = safeLink]
       IN /\ api' = Answer("manual", NotSent, IF valid THEN 0 ELSE 400)
          /\ \/ /\ ~valid
                /\ UNCHANGED <<tasks, store>>
             \/ /\ valid
                /\ Len(tasks) < MaxTasks
                /\ tasks' = Append(tasks, sendToDiscord(t))
                /\ store' = [id \in Ids |->
                                IF store[id].discordTarget = String(discordTarget)
                                THEN [store[id] EXCEPT !.lastItem = safeLink]
                                ELSE store[id]]
    /\ UNCHANGED <<build, token, channelTypeCache, ticks, lastDelivered, call, pick>>

\* POST /manual up to its first suspension
Manual(title, link, discordTarget) ==
    /\ build = "current"
    /\ api.n < MaxApi
    /\ LET valid == TruthyStr(discordTarget) /\ isValidDiscordId(discordTarget)
           safeLink == sanitizeLink(link)
           t == [NewTask("manual", 0, 0, Hydrate(Flux(<<>>, discordTarget, 0)),
                         discordTarget, 0)
                    EXCEPT !.latest = Item(IF TruthyStr(title) THEN title ELSE Article,
                                           link, Undef, 0, 0),
                           !.link = safeLink]
       IN /\ api' = Answer("manual", NotSent, IF valid THEN 0 ELSE 400)
          /\ \/ /\ ~valid
                /\ UNCHANGED tasks
             \/ /\ valid
                /\ Len(tasks) < MaxTasks
                /\ tasks' = Append(tasks, sendToDiscord(t))
    /\ UNCHANGED <<build, token, store, channelTypeCache, ticks, lastDelivered, call, pick>>

\* --------------------------------------------------- specifications

\* the responses a call gets in the whole system: success, success after one
\* rate limit, a rate limit on every attempt, another failure
SystemResponses ==
    { [n \in 1..(DefaultRetries + 2) |-> 200],
      [n \in 1..(DefaultRetries + 2) |-> IF n = 1 THEN 429 ELSE 200],
      [n \in 1..(DefaultRetries + 2) |-> 429],
      [n \in 1..(DefaultRetries + 2) |-> 500] }

\* the scheduled checks of part_001
NextChecks ==
    \/ \E i \in 1..MaxTasks, resps \in SystemResponses : Respond(i, resps)
    \/ \E i \in 1..MaxTasks, ok \in BOOLEAN : Save(i, ok)
    \/ \E i \in 1..MaxTasks, r \in FetchResults : CheckFetched(i, r)
    \/ \E loaded \in BOOLEAN : Tick(loaded)
    \/ \E k \in 1..MaxTicks : TickSettled(k)

\* the scheduled checks of server.js
NextLegacy ==
    \/ \E i \in 1..MaxTasks, r \in DocIds \cup {FetchError} : LegacyFetched(i, r)
    \/ \E i \in 1..MaxTasks, status \in Statuses : LegacyRespond(i, status)
    \/ \E i \in 1..MaxTasks, ok \in BOOLEAN : LegacySave(i, ok)
    \/ \E loaded \in BOOLEAN : LegacyTick(loaded)

Next == NextChecks \/ NextLegacy

\* the scheduler of either server over a collection it finds at start
Spec == Init /\ [][Next]_vars

\* one discordFetch call against every sequence of responses
InitFetch ==
    /\ build = "current"
    /\ token = TRUE
    /\ store = <<>>
    /\ channelTypeCache = {}
    /\ tasks = <<>>
    /\ ticks = <<>>
    /\ api = NoRequest
    /\ lastDelivered = [id \in 1..(MaxSeed + MaxApi) |-> 0]
    /\ call \in {[resps |-> r, n |-> 1, retries |-> DefaultRetries, at |-> "waiting",
                     error |-> NoError] : r \in Responses}
    /\ pick = NoPick

NextFetch == FetchAttempt

SpecFetch == InitFetch /\ [][NextFetch]_vars

\* the interval field of a request body: absent, digit strings around the
\* minimum, a fraction, a negative, no number at all
IntervalInputs ==
    { Undef,
      <<"5", "9", "9", "9", "9">>,
      <<"6", "0", "0", "0", "0">>,
      <<"1", "2", "0", "0", "0", "0">>,
      <<"5", "9", "9", "9", "9", ".", "9">>,
      <<"-", "1">>,
      <<"x">>,
      <<>> }

\* the interval argument of Flux.updateInterval
NumberInputs == {0, MinInterval - 1, MinInterval, 2 * MinInterval, NaN}

InitApi ==
    /\ build = "current"
    /\ token = TRUE
    /\ store \in Seeds
    /\ channelTypeCache = {}
    /\ tasks = <<>>
    /\ ticks = <<>>
    /\ api = NoRequest
    /\ lastDelivered = [id \in 1..(MaxSeed + MaxApi) |-> 0]
    /\ call = NoCall
    /\ pick = NoPick

NextApi ==
    \/ \E u \in {U1, U2, BadUrl}, c \in {ChText, BadId}, iv \in IntervalInputs : Add(u, c, iv)
    \/ \E u \in {U1, BadUrl}, iv \in IntervalInputs, c \in {Undef, ChForum},
          n \in {Undef, U2} : Update(u, iv, c, n)
    \/ \E u \in {U1, U2}, iv \in NumberInputs : UpdateInterval(u, iv)
    \/ \E u \in {U1, BadUrl} : Toggle(u)
    \/ \E u \in {U1, BadUrl} : Delete(u)

\* the Management API and Flux.updateInterval over a collection found at start
SpecApi == InitApi /\ [][NextApi]_vars

\* the part_001 scheduler with the progress its runtime gives: a timer that
\* is set fires, a request sent to Discord or to the database settles, and a
\* settled Promise.allSettled resumes the callback.  The feed parser is
\* given none: it may never respond.
InitLive == Init /\ build = "current"
NextLive == NextChecks
Fairness ==
    /\ \A i \in 1..MaxTasks : WF_vars(FetchTimer(i))
    /\ \A i \in 1..MaxTasks : WF_vars(\E resps \in SystemResponses : Respond(i, resps))
    /\ \A i \in 1..MaxTasks : WF_vars(\E ok \in BOOLEAN : Save(i, ok))
    /\ \A k \in 1..MaxTicks : WF_vars(TickSettled(k))
SpecLive == InitLive /\ [][NextLive]_vars /\ Fairness

\* item lists of up to MaxItems items, told apart by their links: without a
\* date, with an unparsable pubDate, with an isoDate, with a parsable pubDate,
\* with an isoDate beside an unparsable pubDate
DateFields == {<<0, 0>>, <<0, NaN>>, <<T1, 0>>, <<0, T2>>, <<T2, NaN>>}
ItemLists ==
    UNION {[1..n -> DateFields] : n \in 1..MaxItems}
ItemsOf(dates) ==
    [k \in 1..Len(dates) |->
        Item(Undef, <<"s", "/", Digits[k]>>, Undef, dates[k][1], dates[k][2])]

InitSelect ==
    /\ build = "current"
    /\ token = TRUE
    /\ store = <<>>
    /\ channelTypeCache = {}
    /\ tasks = <<>>
    /\ ticks = <<>>
    /\ api = NoRequest
    /\ lastDelivered = [id \in 1..(MaxSeed + MaxApi) |-> 0]
    /\ call = NoCall
    /\ pick \in {[NoPick EXCEPT !.items = ItemsOf(dates), !.at = "input"] :
                    dates \in ItemLists}

\* checkFlux selects the latest item of the list
Select ==
    /\ pick.at = "input"
    /\ \E sorted \in sortOutcomes(pick.items) :
          pick' = [pick EXCEPT !.sorted = sorted,
                               !.latest = latestOf(pick.items, sorted),
                               !.at = "selected"]
    /\ UNCHANGED <<build, token, store, channelTypeCache, tasks, ticks, api,
                   lastDelivered, call>>

NextSelect == Select

\* the latest-item selection of checkFlux over every short item list
SpecSelect == InitSelect /\ [][NextSelect]_vars

\* the part_001 server under management: one subscription to start with
InitManaged ==
    /\ build = "current"
    /\ token = TRUE
    /\ store = << Flux(U1, ChText, 60000) >>
    /\ channelTypeCache = {}
    /\ tasks = <<>>
    /\ ticks = <<>>
    /\ api = NoRequest
    /\ lastDelivered = [id \in 1..(MaxSeed + MaxApi) |-> 0]
    /\ call = NoCall
    /\ pick = NoPick

\* the feed results and responses of the managed server: two documents and a
\* failure, success and a failure
ManagedResults == {2, 3, FetchError}
ManagedResponses ==
    { [n \in 1..(DefaultRetries + 2) |-> 200],
      [n \in 1..(DefaultRetries + 2) |-> 500] }

NextManaged ==
    \/ \E i \in 1..MaxTasks, resps \in ManagedResponses : Respond(i, resps)
    \/ \E i \in 1..MaxTasks : Save(i, TRUE)
    \/ \E i \in 1..MaxTasks, r \in ManagedResults : CheckFetched(i, r)
    \/ Tick(TRUE)
    \/ \E k \in 1..MaxTicks : TickSettled(k)
    \/ \E i \in 1..MaxTasks, r \in ManagedResults : SendLatestFetched(i, r)
    \/ \E u \in {U1, BadUrl} : SendLatest(u, ChText)
    \/ \E c \in {ChForum, ChForumArray, BadId} : Manual(LongTitle, LinkA, c)
    \/ Toggle(U1)
    \/ Delete(U1)
    \/ \E c \in {Undef, ChForum}, n \in {Undef, BadUrl} : Update(U1, Undef, c, n)
    \/ Add(U2, ChText, Undef)

SpecManaged == InitManaged /\ [][NextManaged]_vars

\* ------------------------------------------------------------ properties

\* the thread-creation and message-post calls of an invocation
Posts(t) == SelectSeq(t.calls, LAMBDA c : c # "GET")

\* C1: once a scheduled check has delivered the selected latest item of a
\* document and saved the subscription, a later scheduled check of that
\* subscription that fetches the same document makes no Discord call and
\* delivers nothing.
C1_Idempotence ==
    \A i \in DOMAIN tasks :
        LET t == tasks[i]
        IN (t.kind = "check" /\ t.prev # 0 /\ t.feed = t.prev) =>
               (t.calls = <<>> /\ ~t.delivered /\ t.pc = "done")

\* a check has fetched again the document its subscription last delivered
C1_Witness ==
    \E i \in DOMAIN tasks :
        /\ tasks[i].kind = "check"
        /\ tasks[i].prev # 0
        /\ tasks[i].feed = tasks[i].prev
        /\ tasks[i].pc = "done"

\* C2: in the part_001 server, a scheduled check that loaded a subscription
\* without lastItem and whose fetch, delivery and save succeeded has made
\* exactly one thread-creation or message-post call, for the selected latest
\* item of the document; read back, the subscription's lastItem is that
\* item's link and, the item's date being non-zero, its lastPubDate is that
\* date.
C2_FirstDelivery ==
    \A i \in DOMAIN tasks :
        LET t == tasks[i]
        IN (build = "current" /\ t.kind = "check" /\ t.was = Undef /\ t.saved) =>
               /\ Len(Posts(t)) = 1
               /\ t.latest = selectLatest(Docs[t.feed])
               /\ t.seen.lastItem = sanitizeLink(getItemLinkOrGuid(t.latest))
               /\ getItemDate(t.latest) # 0 =>
                      t.seen.lastPubDate = getItemDate(t.latest)

\* C3: a scheduled check whose selected item has a link (link, else guid)
\* that is empty or no valid URL makes no thread-creation or message-post
\* call and leaves the subscription's document as it loaded it.
C3_NoInvalidLink ==
    \A i \in DOMAIN tasks :
        LET t == tasks[i]
            raw == getItemLinkOrGuid(t.latest)
        IN (/\ t.kind = "check"
            /\ t.latest # NoItem
            /\ raw = <<>> \/ ~isValidUrl(raw)) =>
               /\ Posts(t) = <<>>
               /\ ~t.saved
               /\ t.doc.lastItem = t.was

\* C4: in the part_001 server, when the subscription of a scheduled check
\* last delivered an item of non-zero date T and the check's document has a
\* selected latest item of another link and of a date that is not newer than
\* T, the check makes no thread-creation or message-post call and leaves the
\* subscription's document as it loaded it.
C4_DateGate ==
    \A i \in DOMAIN tasks :
        LET t == tasks[i]
            before == IF t.prev # 0 THEN selectLatest(Docs[t.prev]) ELSE NoItem
            T == getItemDate(before)
        IN (/\ build = "current"
            /\ t.kind = "check"
            /\ t.prev # 0
            /\ TruthyNum(T)
            /\ t.latest # NoItem
            /\ t.link # sanitizeLink(getItemLinkOrGuid(before))
            /\ TruthyNum(t.date)
            /\ t.date <= T) =>
               /\ Posts(t) = <<>>
               /\ ~t.saved
               /\ t.doc.lastItem = t.was

\* C5: an invocation of sendToDiscord that resolved its channel to type 15
\* has made exactly one thread-creation call, with a thread name of at most
\* 90 characters, and no message-post call; one that resolved it to type 0
\* has made exactly one message-post call and no thread-creation call; one
\* that resolved it to another type has failed as unsupported with no call
\* but the channel lookup.
C5_Dispatch ==
    \A i \in DOMAIN tasks :
        LET t == tasks[i]
        IN /\ t.type = 15 => (Posts(t) = <<"thread">> /\ Len(t.name) <= 90)
           /\ t.type = 0 => Posts(t) = <<"message">>
           /\ t.type \notin {NoType, 15, 0} =>
                  /\ t.pc = "done"
                  /\ t.err = "unsupported"
                  /\ Posts(t) = <<>>
                  /\ Len(t.calls) <= 1

\* a long title delivered as a thread whose name fills the 90 characters,
\* beside an invocation that posted a message
C5_Witness ==
    \E i, j \in DOMAIN tasks :
        /\ tasks[i].type = 15
        /\ tasks[i].delivered
        /\ Len(tasks[i].name) = 90
        /\ tasks[j].type = 0
        /\ Posts(tasks[j]) = <<"message">>

\* C6: at every point of one discordFetch call, whatever the responses: every
\* attempt before the one in flight was answered 429 (a retry follows a 429
\* only), the retries left are 2 less the retries made (one retry per 429),
\* at most 3 attempts are made, an attempt answered 429 ends the call only
\* when it is the third, and the call then throws.
C6_RetryPolicy ==
    call.at # "idle" =>
        /\ \A k \in 1..(call.n - 1) : call.resps[k] = 429
        /\ call.retries = 2 - (call.n - 1)
        /\ call.n <= 3
        /\ (call.at # "waiting" /\ call.resps[call.n] = 429) =>
               (call.n = 3 /\ call.at = "thrown")
        /\ (call.at # "waiting" /\ call.resps[call.n] # 429) =>
               (call.at = "returned") = RespOk(call.resps[call.n])

\* a call whose third attempt was answered 429 has thrown
C6_Witness ==
    /\ call.at = "thrown"
    /\ call.n = 3
    /\ call.resps[3] = 429

\* C7: every stored subscription has an interval of at least 60000, and a
\* request to /add or /update or a call of Flux.updateInterval whose interval
\* reads as a number below 60000 is answered with the validation failure and
\* leaves the store as it was.
C7_IntervalFloor ==
    /\ [](\A id \in Ids : store[id].interval >= 60000)
    /\ [][(/\ api'.n = api.n + 1
            /\ api'.op \in {"add", "update", "updateInterval"}
            /\ api'.interval # NotSent
            /\ api'.interval # NaN
            /\ api'.interval < 60000) =>
               (api'.status = 400 /\ store' = store)]_vars

\* /update has refused 59999 for a subscription that exists
C7_Witness ==
    /\ api.op = "update"
    /\ api.interval = 59999
    /\ api.status = 400
    /\ findOneByUrl(U1) # 0

\* how a delivery fails: the channel type is unsupported, or a call throws on
\* a non-success response or on the 429 that ends its retries
DeliveryErrors == {"unsupported", "http"}

\* sendToDiscord was entered
Attempted(t) == t.calls # <<>> \/ t.type # NoType \/ t.err = "token"

\* C8: a scheduled check whose delivery failed has neither marked nor saved
\* its document, the step in which it fails leaves the store as it was, and a
\* later scheduled check of the subscription that loads the same lastItem and
\* fetches the same document enters the delivery of the same item.
C8_FailedDelivery ==
    /\ [](\A i \in DOMAIN tasks :
            LET t == tasks[i]
            IN (t.kind = "check" /\ t.err \in DeliveryErrors) =>
                   /\ ~t.delivered
                   /\ ~t.saved
                   /\ t.doc.lastItem = t.was
                   /\ t.doc.lastPubDate = 0)
    /\ [][\A i \in DOMAIN tasks :
              (/\ tasks[i].kind = "check"
               /\ tasks[i].pc # "done"
               /\ tasks'[i].pc = "done"
               /\ tasks'[i].err \in DeliveryErrors) => store' = store]_vars
    /\ [](\A i, j \in DOMAIN tasks :
            LET t == tasks[i]
                n == tasks[j]
            IN (/\ t.kind = "check" /\ n.kind = "check"
                /\ t.err \in DeliveryErrors
                /\ n.id = t.id
                /\ n.tick > t.tick
                /\ n.was = t.was
                /\ n.feed = t.feed) =>
                   (n.link = t.link /\ n.latest = t.latest /\ Attempted(n)))

\* after a failed delivery, the check of the next tick has posted the same
\* item of the same document
C8_Witness ==
    \E i, j \in DOMAIN tasks :
        /\ tasks[i].kind = "check" /\ tasks[j].kind = "check"
        /\ tasks[i].err \in DeliveryErrors
        /\ tasks[j].id = tasks[i].id
        /\ tasks[j].tick > tasks[i].tick
        /\ tasks[j].was = tasks[i].was
        /\ tasks[j].feed = tasks[i].feed
        /\ Posts(tasks[j]) # <<>>

\* how a feed retrieval fails: parseURL rejects, or the timer wins the race
FetchErrors == {"fetch", "timeout"}

\* C9: a scheduled check whose feed retrieval failed has returned, not
\* thrown, has made no Discord call, has neither marked nor saved its
\* document, and the step in which it fails leaves the store as it was.
C9_FailedFetch ==
    /\ [](\A i \in DOMAIN tasks :
            LET t == tasks[i]
            IN (t.kind = "check" /\ t.err \in FetchErrors) =>
                   /\ t.pc = "done"
                   /\ t.outcome = "returned"
                   /\ t.calls = <<>>
                   /\ ~t.delivered
                   /\ ~t.saved
                   /\ t.doc.lastItem = t.was
                   /\ t.doc.lastPubDate = 0)
    /\ [][\A i \in DOMAIN tasks :
              (/\ tasks[i].kind = "check"
               /\ tasks[i].pc = "fetch"
               /\ tasks'[i].err \in FetchErrors) => store' = store]_vars

\* a check of a subscription that had delivered before has lost the race
\* against the timer
C9_Witness ==
    \E i \in DOMAIN tasks :
        /\ tasks[i].kind = "check"
        /\ tasks[i].err = "timeout"
        /\ tasks[i].was # Undef

\* a step of invocation i
TaskStep(i) ==
    \/ \E resps \in SystemResponses : Respond(i, resps)
    \/ \E ok \in BOOLEAN : Save(i, ok)
    \/ \E r \in FetchResults : CheckFetched(i, r)
    \/ \E r \in DocIds \cup {FetchError} : LegacyFetched(i, r)
    \/ \E status \in Statuses : LegacyRespond(i, status)
    \/ \E ok \in BOOLEAN : LegacySave(i, ok)

\* C10: no tick has failed; a tick that loaded the subscriptions has started
\* the check of every due one; whatever has become of the other checks, a
\* check that has not ended can take its next step, and a tick whose checks
\* have all ended can return.
C10_Isolation ==
    \A k \in DOMAIN ticks :
        /\ ticks[k].status \in {"awaiting", "completed"}
        /\ ~ticks[k].caught => ticks[k].last - ticks[k].first + 1 = ticks[k].due
        /\ \A i \in ticks[k].first..ticks[k].last :
               /\ i \in DOMAIN tasks
               /\ tasks[i].tick = k
               /\ tasks[i].outcome # "thrown"
               /\ tasks[i].pc # "done" => ENABLED TaskStep(i)
        /\ (/\ ticks[k].status = "awaiting"
            /\ \A i \in ticks[k].first..ticks[k].last : tasks[i].pc = "done") =>
               ENABLED TickSettled(k)

\* a tick of two checks has returned, one check having failed, the other
\* having delivered and saved
C10_Witness ==
    \E k \in DOMAIN ticks :
        /\ ticks[k].status = "completed"
        /\ ticks[k].due = 2
        /\ \E i, j \in ticks[k].first..ticks[k].last :
               /\ tasks[i].pc = "done"
               /\ tasks[i].err # ""
               /\ tasks[j].pc = "done"
               /\ tasks[j].saved

\* C11: in the part_001 server, two scheduled checks of one subscription are
\* started at ticks that lie at least the subscription's interval apart
\* (60000 when the stored interval is no finite number).
C11_IntervalRespected ==
    \A i, j \in DOMAIN tasks :
        LET t == tasks[i]
            n == tasks[j]
            interval == IF n.doc.interval # NaN THEN n.doc.interval ELSE 60000
        IN (/\ build = "current"
            /\ t.kind = "check" /\ n.kind = "check"
            /\ n.id = t.id
            /\ n.tick > t.tick) =>
               Now(n.tick) - Now(t.tick) >= interval

\* the channel lookups of an invocation
Gets(t) == Len(SelectSeq(t.calls, LAMBDA c : c = "GET"))

\* the cache holds an entry for the channel that c names
Resolved(c) == \E e \in channelTypeCache : String(e.id) = String(c)

\* C12: in the part_001 server, no step issues a channel lookup for an
\* invocation whose channel the cache holds an entry for (an entry is added
\* by a successful lookup and stays until /update deletes it), and an
\* invocation that resolves its channel without a lookup of its own takes
\* the type of that entry.
C12_CachedLookup ==
    [][\A i \in DOMAIN tasks' :
          LET before == IF i \in DOMAIN tasks THEN tasks[i] ELSE NewTask("", 0, 0, Hydrate(Flux(<<>>, <<>>, 0)), <<>>, 0)
              after == tasks'[i]
          IN /\ Gets(after) > Gets(before) => ~Resolved(after.chan)
             /\ (before.type = NoType /\ after.type # NoType /\ Gets(after) = 0) =>
                    \E e \in channelTypeCache :
                        /\ String(e.id) = String(after.chan)
                        /\ e.type = after.type]_vars

\* C13: in the part_001 server, a step that removes an entry of the channel
\* type cache is the answer to an /update request that succeeded and changed
\* the target of a subscription.
C13_InvalidationOnReassignment ==
    [][~(channelTypeCache \subseteq channelTypeCache') =>
          /\ api'.n = api.n + 1
          /\ api'.op = "update"
          /\ api'.status = 200
          /\ \E id \in Ids : store'[id].discordTarget # store[id].discordTarget]_vars

\* the parsed dates of the items of a list that are dates
RealDates(items) ==
    {getItemDate(items[k]) : k \in {j \in 1..Len(items) : TruthyNum(getItemDate(items[j]))}}

\* C14: the item selected from a non-empty list is one of the greatest
\* parsed date when an item of the list has a non-zero parsed date, and the
\* first item of the list when none has.
C14_LatestSelection ==
    pick.at = "selected" =>
        IF RealDates(pick.items) # {}
        THEN /\ \E k \in 1..Len(pick.items) : pick.latest = pick.items[k]
             /\ \A d \in RealDates(pick.items) :
                    /\ TruthyNum(getItemDate(pick.latest))
                    /\ getItemDate(pick.latest) >= d
        ELSE pick.latest = pick.items[1]

\* the delivery of its item by invocation t to the target it was given has
\* completed: its thread or message call was answered with success
Delivered(t) ==
    /\ t.delivered
    /\ Posts(t) # <<>>
    /\ t.err \in {"", "save"}
    /\ t.link = sanitizeLink(getItemLinkOrGuid(t.latest))

\* C15: in the part_001 server the stored lastItem of a subscription is unset
\* or the link of an item that a check or send-latest of that subscription
\* has delivered; a step that changes it is the save of an invocation whose
\* delivery of that item has completed; and a check or send-latest sets
\* lastItem or lastPubDate of its document only after its delivery completed.
C15_DeliverThenRecord ==
    /\ [](\A id \in Ids :
            store[id].lastItem = Undef \/
            \E i \in DOMAIN tasks :
                /\ tasks[i].id = id
                /\ tasks[i].kind \in {"check", "send-latest"}
                /\ Delivered(tasks[i])
                /\ tasks[i].link = store[id].lastItem)
    /\ [][\A id \in Ids :
              store'[id].lastItem # store[id].lastItem =>
                  \E i \in DOMAIN tasks :
                      /\ tasks[i].id = id
                      /\ tasks[i].pc = "save"
                      /\ Delivered(tasks[i])
                      /\ store'[id].lastItem = tasks[i].link]_vars
    /\ [](\A i \in DOMAIN tasks :
            LET t == tasks[i]
            IN (t.kind \in {"check", "send-latest"}
                /\ (t.doc.lastItem # t.was \/ t.doc.lastPubDate # 0)) => Delivered(t))

\* a send-latest and a scheduled check have each recorded the item they
\* delivered
C15_Witness ==
    /\ \E i \in DOMAIN tasks :
          /\ tasks[i].kind = "send-latest" /\ tasks[i].saved
          /\ Delivered(tasks[i])
    /\ \E i \in DOMAIN tasks :
          /\ tasks[i].kind = "check" /\ tasks[i].saved
          /\ store[tasks[i].id].lastItem = tasks[i].link

\* C16: in the part_001 server, when the check of a subscription started at
\* one tick is still in flight and the next tick has started a second check
\* of the same subscription that fetched the same document, the two checks
\* have not both delivered the document's latest item.
C16_OverlapIdempotent ==
    \A i, j \in DOMAIN tasks :
        LET t == tasks[i]
            n == tasks[j]
        IN (/\ build = "current"
            /\ t.kind = "check" /\ n.kind = "check"
            /\ n.id = t.id
            /\ n.tick = t.tick + 1
            /\ t.pc # "done" /\ n.pc # "done"
            /\ t.feed # 0 /\ n.feed = t.feed) =>
               ~(t.delivered /\ n.delivered /\ n.link = t.link)

\* C17: in the part_001 server a scheduled check is started only by a tick
\* and only for a subscription that is stored active when the tick loads the
\* subscriptions, and the active flag of a subscription changes only in a
\* successful toggle request, so that a subscription toggled inactive gets
\* no scheduled check from the next tick on until it is toggled back.
C17_OnlyActiveEnqueued ==
    /\ [][\A i \in (DOMAIN tasks') \ (DOMAIN tasks) :
              tasks'[i].kind = "check" =>
                  /\ Len(ticks') = Len(ticks) + 1
                  /\ tasks'[i].tick = Len(ticks')
                  /\ tasks'[i].id \in Ids
                  /\ store[tasks'[i].id].present
                  /\ store[tasks'[i].id].active]_vars
    /\ [][\A id \in Ids :
              store'[id].active # store[id].active =>
                  /\ api'.n = api.n + 1
                  /\ api'.op = "toggle"
                  /\ api'.status = 200]_vars

\* a check of the subscription was in flight when it was toggled inactive,
\* has saved since, and the next tick has started no check
C17_Witness ==
    /\ api.n = 1 /\ api.op = "toggle" /\ api.status = 200
    /\ store[1].present /\ ~store[1].active
    /\ Len(ticks) = 2
    /\ ticks[1].due = 1 /\ tasks[1].saved
    /\ ticks[2].due = 0 /\ ~ticks[2].caught

\* C18: in one discordFetch call, an attempt is followed by another only
\* when it was answered 429 with retries left; a response that is no success
\* and is not a 429 with retries left ends the call in that step, with no
\* further attempt, by an error that carries the status of that response and
\* the text read from its body (empty when the body cannot be read), the
\* same for a 429 on the last attempt as for another failure.
C18_NoRetryOfFailure ==
    /\ [][/\ call'.n # call.n =>
               (call.resps[call.n] = 429 /\ call.retries > 0 /\ call'.n = call.n + 1)
          /\ (/\ call.at = "waiting"
              /\ ~RespOk(call.resps[call.n])
              /\ (call.resps[call.n] # 429 \/ call.retries = 0)) =>
                 (/\ call'.at = "thrown"
                  /\ call'.n = call.n
                  /\ call'.error.status = call.resps[call.n]
                  /\ call'.error.text \in {Body(call.n), <<>>})]_vars
    /\ [](call.at = "thrown" =>
            /\ call.error.status = call.resps[call.n]
            /\ ~RespOk(call.error.status)
            /\ call.error.text \in {Body(call.n), <<>>}
            /\ \A k \in 1..(call.n - 1) : call.resps[k] = 429)
    /\ [](call.at # "thrown" => call.error = NoError)

\* a call whose second attempt was answered 500 after a 429 has thrown the
\* error of that response, others were to follow
C18_Witness ==
    /\ call.at = "thrown"
    /\ call.n = 2
    /\ call.resps[1] = 429
    /\ call.resps[2] = 500
    /\ call.resps[3] = 200
    /\ call.error = discordError(500, Body(2))

\* C19: in the part_001 scheduler every check suspended at the feed fetch
\* leaves it, whether or not the parser ever responds; a check whose fetch
\* ended by the timeout has returned without a Discord call, a delivery or
\* a save; and every tick callback awaiting its checks completes.
C19_FetchTerminates ==
    /\ \A i \in 1..MaxTasks :
          (i \in DOMAIN tasks /\ tasks[i].pc = "fetch") ~>
              (i \in DOMAIN tasks /\ tasks[i].pc # "fetch")
    /\ [](\A i \in DOMAIN tasks :
            tasks[i].err = "timeout" =>
                /\ tasks[i].pc = "done"
                /\ tasks[i].outcome = "returned"
                /\ tasks[i].calls = <<>>
                /\ ~tasks[i].delivered
                /\ ~tasks[i].saved)
    /\ \A k \in 1..MaxTicks :
          (k \in DOMAIN ticks /\ ticks[k].status = "awaiting") ~>
              (k \in DOMAIN ticks /\ ticks[k].status = "completed")

\* a tick that awaited two checks has completed, the fetch of one having
\* timed out and the other having delivered
C19_Witness ==
    \E k \in DOMAIN ticks :
        /\ ticks[k].status = "completed"
        /\ ticks[k].due = 2
        /\ \E i, j \in ticks[k].first..ticks[k].last :
              /\ tasks[i].err = "timeout"
              /\ tasks[j].delivered

\* C20: in the part_001 server, once a scheduled check has set a lastPubDate
\* on a subscription and saved it, a later scheduled check of the
\* subscription that loads it after that save holds a lastPubDate that is no
\* less: it is not empty again, and where the later check sets another value
\* that value is greater.
C20_TimestampMonotone ==
    \A i, j \in DOMAIN tasks :
        LET t == tasks[i]
            n == tasks[j]
        IN (/\ build = "current"
            /\ t.kind = "check" /\ n.kind = "check"
            /\ n.id = t.id
            /\ n.tick > t.tick
            /\ t.saved
            /\ TruthyNum(t.doc.lastPubDate)
            /\ n.prev = t.feed) =>
               /\ TruthyNum(n.doc.lastPubDate)
               /\ n.doc.lastPubDate >= t.doc.lastPubDate

\* a scheduled check n of the subscription of send-latest t that loaded the
\* subscription after t had saved it and fetched the document t fetched
Follows(n, t) ==
    /\ n.kind = "check"
    /\ t.kind = "send-latest"
    /\ t.saved
    /\ n.id = t.id
    /\ n.was = t.link
    /\ n.prev = t.feed
    /\ n.feed = t.feed

\* send-latest delivers the latest item of its document whatever the
\* subscription's lastItem, and a scheduled check that follows it on the same
\* document makes no thread-creation or message-post call
SendLatestBypasses ==
    /\ \A i \in DOMAIN tasks :
          LET t == tasks[i]
          IN (t.kind = "send-latest" /\ t.feed # 0 /\ Docs[t.feed] # <<>>) =>
                 /\ t.latest = selectLatest(Docs[t.feed])
                 /\ t.link = sanitizeLink(getItemLinkOrGuid(t.latest))
                 /\ t.link # <<>> => Attempted(t)
                 /\ t.saved => (Delivered(t) /\ Len(Posts(t)) = 1
                                /\ t.seen.lastItem = t.link)
    /\ \A i, j \in DOMAIN tasks :
          Follows(tasks[j], tasks[i]) => (Posts(tasks[j]) = <<>> /\ ~tasks[j].delivered)

\* C21: in the part_001 server a send-latest for a stored subscription whose
\* document has a latest item of valid link delivers that item whatever the
\* subscription's lastItem and lastPubDate; once it has saved, the
\* subscription read back has that item's link as lastItem and, when the
\* item's date is non-zero, that date as lastPubDate; and a scheduled check
\* that follows on the same document delivers nothing.
C21_SendLatestRecords ==
    /\ SendLatestBypasses
    /\ \A i \in DOMAIN tasks :
          LET t == tasks[i]
          IN (t.kind = "send-latest" /\ t.saved /\ TruthyNum(t.date)) =>
                 t.seen.lastPubDate = t.date

\* the step is one of POST /manual: the request arrives, or an await of its
\* handler settles
ManualStep ==
    \/ api'.n = api.n + 1 /\ api'.op = "manual"
    \/ \E i \in DOMAIN tasks : tasks[i].kind = "manual" /\ tasks'[i] # tasks[i]

\* C22: in the part_001 server no step of POST /manual, accepted or
\* refused, delivered or failed, changes a stored subscription (rssUrl,
\* discordTarget, interval, lastItem, active, presence) or the record of what
\* the subscription last delivered, and a manual post is of no subscription
\* and never saves.
C22_ManualFrame ==
    /\ [][ManualStep => (store' = store /\ lastDelivered' = lastDelivered)]_vars
    /\ [](\A i \in DOMAIN tasks :
            tasks[i].kind = "manual" =>
                (tasks[i].id = 0 /\ ~tasks[i].saved /\ tasks[i].pc # "save"))

\* a subscription is stored for the forum channel, and a manual post to that
\* channel has been delivered
C22_Witness ==
    \E i \in DOMAIN tasks :
        /\ tasks[i].kind = "manual"
        /\ tasks[i].pc = "done"
        /\ tasks[i].delivered
        /\ tasks[i].status = 200
        /\ \E id \in Ids : store[id].present /\ store[id].discordTarget = String(tasks[i].chan)

====
